---- MODULE Spec2Model ----
(***************************************************************************)
(* G233 serial flash (hw/block/m25p80_g233.c) and G233 SPI controller      *)
(* (hw/ssi/g233_spi.c) as state machines.                                  *)
(*                                                                         *)
(* The two devices are records whose fields carry the names of the C       *)
(* struct fields; every C function is an operator from the record (and the *)
(* call's arguments) to the record after the call (and the value           *)
(* returned).  The actions apply these operators to inputs drawn from      *)
(* small sets.                                                             *)
(*                                                                         *)
(* Representation of the storage array: `storage` is the function from the *)
(* offsets whose byte differs from 0xFF to that byte; an offset below      *)
(* `size` that is not in its domain holds 0xFF (realize fills the array    *)
(* with 0xFF).  Two arrays are equal exactly when their representations    *)
(* are.  This keeps the real sizes (2 MiB / 4 MiB, 4 KiB sectors, 256-byte *)
(* page buffer) in the model.  `page_buf` is kept the same way, as the     *)
(* function from the positions whose byte differs from 0 (the object is    *)
(* allocated zeroed and the buffer is never cleared afterwards).           *)
(***************************************************************************)
EXTENDS Integers, Sequences, FiniteSets, TLC

VARIABLES
    flash,      \* G233FlashState
    spi,        \* G233SPIState, with the levels last driven on its output lines
    op,         \* the last entry point called, its arguments and its result
    nwren,      \* number of WREN opcodes the host has sent so far
    mon,        \* observer of the program / read-back sequence
    armed       \* has a WREN opcode been accepted since the last reset, WRDI,
                \* erase and commit?

vars == <<flash, spi, op, nwren, mon, armed>>

(***************************************************************************)
(* Bounds of the environment.                                              *)
(***************************************************************************)
\* WREN opcodes the host sends in one run
MaxWren == 2
\* data bytes the host sends in one page-program transaction
MaxData == 2
\* bytes the host clocks out of one READ_DATA transaction
MaxRead == 3
\* bytes the host clocks out after one JEDEC_ID opcode
MaxIdRead == 5
\* interrupts counted between two controller resets
MaxIrqCount == 2
\* data bytes the host sends after the 256th of a page program
MaxExtra == 2

(***************************************************************************)
(* Flash commands, status bits, states (m25p80_g233.c:23-44).              *)
(***************************************************************************)
CMD_JEDEC_ID == 159
CMD_READ == 3
CMD_WREN == 6
CMD_WRDI == 4
CMD_RDSR == 5
CMD_WRSR == 1
CMD_PP == 2
CMD_SE == 32

STATE_IDLE == "STATE_IDLE"
STATE_READING_CMD == "STATE_READING_CMD"
STATE_READING_ID == "STATE_READING_ID"
STATE_READING_DATA == "STATE_READING_DATA"
STATE_READING_SR == "STATE_READING_SR"
STATE_WRITING_SR == "STATE_WRITING_SR"
STATE_WRITING_DATA == "STATE_WRITING_DATA"
STATE_ERASING == "STATE_ERASING"

FlashStates ==
    {STATE_IDLE, STATE_READING_CMD, STATE_READING_ID, STATE_READING_DATA,
     STATE_READING_SR, STATE_WRITING_SR, STATE_WRITING_DATA, STATE_ERASING}

\* sizeof page_buf
PAGE_BUF_LEN == 256
\* bytes filled by one sector erase
SECTOR_LEN == 4096

MiB == 1024 * 1024

\* Device sizes the board may configure (property "size"; 0 means 2 MiB).
Sizes == {2 * MiB, 4 * MiB}

(***************************************************************************)
(* The storage array.                                                      *)
(***************************************************************************)
\* storage[off]
StorageByte(storage, off) ==
    IF off \in DOMAIN storage THEN storage[off] ELSE 255

\* memset(storage + off, c, n)
Memset(storage, off, c, n) ==
    LET rng == off .. (off + n - 1)
        keep == DOMAIN storage \ rng
    IN  IF c = 255
        THEN [a \in keep |-> storage[a]]
        ELSE [a \in keep \cup rng |-> IF a \in rng THEN c ELSE storage[a]]

\* page_buf[i]
PageByte(buf, i) == IF i \in DOMAIN buf THEN buf[i] ELSE 0

\* page_buf[i] = b
PageStore(buf, i, b) ==
    [j \in (DOMAIN buf \ {i}) \cup (IF b = 0 THEN {} ELSE {i}) |->
        IF j = i THEN b ELSE buf[j]]

\* memcpy(storage + off, buf, n)
Memcpy(storage, off, buf, n) ==
    LET rng == off .. (off + n - 1)
        set == {a \in rng : PageByte(buf, a - off) # 255}
        keep == DOMAIN storage \ rng
    IN  [a \in keep \cup set |->
            IF a \in rng THEN PageByte(buf, a - off) ELSE storage[a]]

(***************************************************************************)
(* g233_flash_realize followed by the first reset.                         *)
(***************************************************************************)
JedecId(size) ==
    [i \in 0..2 |->
        CASE i = 0 -> 239
          [] i = 1 -> 48
          [] OTHER -> IF size = 2 * MiB THEN 21
                      ELSE IF size = 4 * MiB THEN 22
                      ELSE 0]

\* g233_flash_reset leaving the command state and the page position alone
g233_flash_reset_KeepPage(s) ==
    [s EXCEPT !.cmd = 0,
              !.addr = 0,
              !.addr_bytes = 0,
              !.data_pos = 0,
              !.status_reg = 0,
              !.write_enable = FALSE]

g233_flash_reset(s) ==
    [s EXCEPT !.state = STATE_IDLE,
              !.cmd = 0,
              !.addr = 0,
              !.addr_bytes = 0,
              !.data_pos = 0,
              !.status_reg = 0,
              !.write_enable = FALSE,
              !.page_pos = 0]

g233_flash_realize(size) ==
    [size |-> IF size = 0 THEN 2 * MiB ELSE size,
     jedec_id |-> JedecId(IF size = 0 THEN 2 * MiB ELSE size),
     storage |-> <<>>,
     state |-> STATE_IDLE,
     cmd |-> 0,
     addr |-> 0,
     addr_bytes |-> 0,
     data_pos |-> 0,
     status_reg |-> 0,
     write_enable |-> FALSE,
     page_buf |-> <<>>,
     page_pos |-> 0]

(***************************************************************************)
(* g233_flash_transfer, one operator per case of the switch on s->state.   *)
(* Each gives the device after the call and the value of rx.               *)
(***************************************************************************)
Ret(s, rx) == [s |-> s, rx |-> rx]

\* TransferIdle with the write_enable test of PAGE_PROGRAM left out
TransferIdle_NoGate(s, tx) ==
    LET c == [s EXCEPT !.cmd = tx % 256]
    IN  CASE tx = CMD_JEDEC_ID ->
                Ret([c EXCEPT !.state = STATE_READING_ID, !.data_pos = 0], 0)
          [] tx = CMD_RDSR ->
                Ret([c EXCEPT !.state = STATE_READING_SR], 0)
          [] tx = CMD_WREN ->
                Ret([c EXCEPT !.write_enable = TRUE], 0)
          [] tx = CMD_WRDI ->
                Ret([c EXCEPT !.write_enable = FALSE], 0)
          [] tx \in {CMD_READ, CMD_SE} ->
                Ret([c EXCEPT !.state = STATE_READING_CMD,
                              !.addr = 0, !.addr_bytes = 0], 0)
          [] tx = CMD_PP ->
                Ret([c EXCEPT !.state = STATE_READING_CMD,
                              !.addr = 0, !.addr_bytes = 0,
                              !.page_pos = 0], 0)
          [] OTHER -> Ret(c, 0)

TransferIdle(s, tx) ==
    LET c == [s EXCEPT !.cmd = tx % 256]
    IN  CASE tx = CMD_JEDEC_ID ->
                Ret([c EXCEPT !.state = STATE_READING_ID, !.data_pos = 0], 0)
          [] tx = CMD_RDSR ->
                Ret([c EXCEPT !.state = STATE_READING_SR], 0)
          [] tx = CMD_WREN ->
                Ret([c EXCEPT !.write_enable = TRUE], 0)
          [] tx = CMD_WRDI ->
                Ret([c EXCEPT !.write_enable = FALSE], 0)
          [] tx = CMD_READ ->
                Ret([c EXCEPT !.state = STATE_READING_CMD,
                              !.addr = 0, !.addr_bytes = 0], 0)
          [] tx = CMD_PP ->
                IF c.write_enable
                THEN Ret([c EXCEPT !.state = STATE_READING_CMD,
                                   !.addr = 0, !.addr_bytes = 0,
                                   !.page_pos = 0], 0)
                ELSE Ret(c, 0)
          [] tx = CMD_SE ->
                IF c.write_enable
                THEN Ret([c EXCEPT !.state = STATE_READING_CMD,
                                   !.addr = 0, !.addr_bytes = 0], 0)
                ELSE Ret(c, 0)
          [] OTHER -> Ret(c, 0)

\* TransferReadingId with the position wrapping to the first id byte
TransferReadingId_Wrap(s, tx) ==
    Ret([s EXCEPT !.data_pos = (s.data_pos + 1) % 3], s.jedec_id[s.data_pos % 3])

TransferReadingId(s, tx) ==
    IF s.data_pos < 3
    THEN Ret([s EXCEPT !.data_pos = s.data_pos + 1], s.jedec_id[s.data_pos])
    ELSE Ret(s, 255)

\* TransferReadingSr staying in STATE_READING_SR, the register streamed
\* for as long as the device is selected
TransferReadingSr_Stream(s, tx) ==
    Ret(s, s.status_reg)

TransferReadingSr(s, tx) ==
    Ret([s EXCEPT !.state = STATE_IDLE], s.status_reg)

\* EraseSector filling from s->addr itself, the low 12 bits not cleared
EraseSector_Unaligned(s) ==
    [s EXCEPT !.storage = IF s.addr < s.size
                          THEN Memset(s.storage, s.addr, 255, SECTOR_LEN)
                          ELSE s.storage,
              !.write_enable = FALSE,
              !.state = STATE_IDLE]

\* EraseSector leaving write_enable set
EraseSector_KeepLatch(s) ==
    LET sector_addr == s.addr - (s.addr % SECTOR_LEN)
    IN  [s EXCEPT !.storage = IF sector_addr < s.size
                              THEN Memset(s.storage, sector_addr, 255, SECTOR_LEN)
                              ELSE s.storage,
                  !.state = STATE_IDLE]

\* sector_addr = s->addr & ~0xFFF; erase if it lies inside the array
EraseSector(s) ==
    LET sector_addr == s.addr - (s.addr % SECTOR_LEN)
    IN  [s EXCEPT !.storage = IF sector_addr < s.size
                              THEN Memset(s.storage, sector_addr, 255, SECTOR_LEN)
                              ELSE s.storage,
                  !.write_enable = FALSE,
                  !.state = STATE_IDLE]

\* s->addr = (s->addr << 8) | tx, on uint32_t; tx is one byte, so the low
\* byte of the shifted value is free and the OR is a sum.
ShiftIn(addr, tx) == (addr % 16777216) * 256 + (tx % 256)

TransferReadingCmd(s, tx) ==
    LET a == [s EXCEPT !.addr = ShiftIn(s.addr, tx),
                       !.addr_bytes = s.addr_bytes + 1]
    IN  IF a.addr_bytes >= 3
        THEN CASE a.cmd = CMD_READ ->
                    Ret([a EXCEPT !.state = STATE_READING_DATA, !.data_pos = 0], 0)
               [] a.cmd = CMD_PP ->
                    Ret([a EXCEPT !.state = STATE_WRITING_DATA], 0)
               [] a.cmd = CMD_SE ->
                    Ret(EraseSector(a), 0)
               [] OTHER -> Ret(a, 0)
        ELSE Ret(a, 0)

\* TransferReadingData incrementing data_pos before the read
TransferReadingData_PreInc(s, tx) ==
    Ret([s EXCEPT !.data_pos = s.data_pos + 1],
        IF s.addr + s.data_pos + 1 < s.size
        THEN StorageByte(s.storage, s.addr + s.data_pos + 1)
        ELSE 255)

\* TransferReadingData without the else branch: rx keeps its initial 0
\* past the end of the array
TransferReadingData_NoPad(s, tx) ==
    Ret([s EXCEPT !.data_pos = s.data_pos + 1],
        IF s.addr + s.data_pos < s.size
        THEN StorageByte(s.storage, s.addr + s.data_pos)
        ELSE 0)

TransferReadingData(s, tx) ==
    Ret([s EXCEPT !.data_pos = s.data_pos + 1],
        IF s.addr + s.data_pos < s.size
        THEN StorageByte(s.storage, s.addr + s.data_pos)
        ELSE 255)

\* TransferWritingData programming each byte into the array as it arrives
TransferWritingData_WriteThrough(s, tx) ==
    IF s.page_pos < PAGE_BUF_LEN
    THEN Ret([s EXCEPT !.page_buf = PageStore(s.page_buf, s.page_pos, tx % 256),
                       !.page_pos = s.page_pos + 1,
                       !.storage = IF s.addr + s.page_pos < s.size
                                   THEN Memcpy(s.storage, s.addr + s.page_pos,
                                               PageStore(<<>>, 0, tx % 256), 1)
                                   ELSE s.storage], 0)
    ELSE Ret(s, 0)

\* TransferWritingData without the bounds test, the index wrapping inside
\* the buffer
TransferWritingData_PageWrap(s, tx) ==
    Ret([s EXCEPT !.page_buf =
                      PageStore(s.page_buf, s.page_pos % PAGE_BUF_LEN, tx % 256),
                  !.page_pos = s.page_pos + 1], 0)

TransferWritingData(s, tx) ==
    IF s.page_pos < PAGE_BUF_LEN
    THEN Ret([s EXCEPT !.page_buf = PageStore(s.page_buf, s.page_pos, tx % 256),
                       !.page_pos = s.page_pos + 1], 0)
    ELSE Ret(s, 0)

g233_flash_transfer(s, tx) ==
    LET r == CASE s.state = STATE_IDLE -> TransferIdle(s, tx)
               [] s.state = STATE_READING_ID -> TransferReadingId(s, tx)
               [] s.state = STATE_READING_SR -> TransferReadingSr(s, tx)
               [] s.state = STATE_READING_CMD -> TransferReadingCmd(s, tx)
               [] s.state = STATE_READING_DATA -> TransferReadingData(s, tx)
               [] s.state = STATE_WRITING_DATA -> TransferWritingData(s, tx)
               [] OTHER -> Ret([s EXCEPT !.state = STATE_IDLE], 0)
    IN  Ret(r.s, r.rx % 256)

(***************************************************************************)
(* Chip select: the GPIO handler g233_flash_cs (level of the line) and the *)
(* SSI callback g233_flash_set_cs (its argument `select`).                 *)
(***************************************************************************)
\* g233_flash_cs leaving the address and its byte count as they are
g233_flash_cs_KeepAddr(s, n, level) ==
    IF level # 0
    THEN LET w == IF s.state = STATE_WRITING_DATA /\ s.page_pos > 0
                  THEN [s EXCEPT !.storage =
                                    IF s.addr + s.page_pos <= s.size
                                    THEN Memcpy(s.storage, s.addr, s.page_buf, s.page_pos)
                                    ELSE s.storage,
                                 !.write_enable = FALSE]
                  ELSE s
         IN  [w EXCEPT !.state = STATE_IDLE,
                       !.data_pos = 0,
                       !.page_pos = 0]
    ELSE s

\* g233_flash_cs ending the transaction without the commit
g233_flash_cs_Discard(s, n, level) ==
    IF level # 0
    THEN [s EXCEPT !.state = STATE_IDLE,
                   !.data_pos = 0,
                   !.page_pos = 0,
                   !.addr = 0,
                   !.addr_bytes = 0]
    ELSE s

g233_flash_cs(s, n, level) ==
    IF level # 0
    THEN LET w == IF s.state = STATE_WRITING_DATA /\ s.page_pos > 0
                  THEN [s EXCEPT !.storage =
                                    IF s.addr + s.page_pos <= s.size
                                    THEN Memcpy(s.storage, s.addr, s.page_buf, s.page_pos)
                                    ELSE s.storage,
                                 !.write_enable = FALSE]
                  ELSE s
         IN  [w EXCEPT !.state = STATE_IDLE,
                       !.data_pos = 0,
                       !.page_pos = 0,
                       !.addr = 0,
                       !.addr_bytes = 0]
    ELSE s

\* g233_flash_set_cs clearing write_enable inside the bounds test, only
\* when the buffer is copied
g233_flash_set_cs_ClearOnCopy(s, select) ==
    IF ~select
    THEN LET w == IF s.state = STATE_WRITING_DATA /\ s.page_pos > 0
                     /\ s.addr + s.page_pos <= s.size
                  THEN [s EXCEPT !.storage =
                                    Memcpy(s.storage, s.addr, s.page_buf, s.page_pos),
                                 !.write_enable = FALSE]
                  ELSE s
         IN  [w EXCEPT !.state = STATE_IDLE,
                       !.data_pos = 0,
                       !.page_pos = 0,
                       !.addr = 0,
                       !.addr_bytes = 0]
    ELSE s

g233_flash_set_cs(s, select) ==
    IF ~select
    THEN LET w == IF s.state = STATE_WRITING_DATA /\ s.page_pos > 0
                  THEN [s EXCEPT !.storage =
                                    IF s.addr + s.page_pos <= s.size
                                    THEN Memcpy(s.storage, s.addr, s.page_buf, s.page_pos)
                                    ELSE s.storage,
                                 !.write_enable = FALSE]
                  ELSE s
         IN  [w EXCEPT !.state = STATE_IDLE,
                       !.data_pos = 0,
                       !.page_pos = 0,
                       !.addr = 0,
                       !.addr_bytes = 0]
    ELSE s

(***************************************************************************)
(* Bit operations on register values.                                      *)
(***************************************************************************)
RECURSIVE BitAnd(_, _)
BitAnd(a, b) ==
    IF a = 0 \/ b = 0 THEN 0
    ELSE (a % 2) * (b % 2) + 2 * BitAnd(a \div 2, b \div 2)

BitOr(a, b) == a + b - BitAnd(a, b)

\* a & ~b
BitClear(a, b) == a - BitAnd(a, b)

(***************************************************************************)
(* SPI controller: register offsets and bits (g233_spi.c:19-39).           *)
(***************************************************************************)
SPI_CR1 == 0
SPI_CR2 == 4
SPI_SR == 8
SPI_DR == 12
SPI_CSCTRL == 16

SPI_CR1_SPE == 64
SPI_CR1_MSTR == 4

SPI_CR2_RXNEIE == 64
SPI_CR2_ERRIE == 32
SPI_CR2_TXEIE == 128

SPI_SR_TXE == 2
SPI_SR_RXNE == 1
SPI_SR_UDR == 4
SPI_SR_OVR == 8
SPI_SR_BSY == 128

\* select lines created by realize
NUM_CS == 4

g233_spi_update_irq(s) ==
    LET irq_state ==
            \/ BitAnd(s.cr2, SPI_CR2_RXNEIE) # 0 /\ BitAnd(s.sr, SPI_SR_RXNE) # 0
            \/ BitAnd(s.cr2, SPI_CR2_TXEIE) # 0 /\ BitAnd(s.sr, SPI_SR_TXE) # 0
            \/ BitAnd(s.cr2, SPI_CR2_ERRIE) # 0
                 /\ BitAnd(s.sr, SPI_SR_UDR + SPI_SR_OVR) # 0
    IN  [s EXCEPT !.interrupt_count = IF irq_state THEN @ + 1 ELSE @,
                  !.irq = irq_state]

\* the device after the read and the value returned
g233_spi_read(s, addr) ==
    CASE addr = SPI_CR1 -> [s |-> s, ret |-> s.cr1]
      [] addr = SPI_CR2 -> [s |-> s, ret |-> s.cr2]
      [] addr = SPI_SR -> [s |-> s, ret |-> s.sr]
      [] addr = SPI_DR ->
            [s |-> g233_spi_update_irq(
                       [s EXCEPT !.sr = BitClear(s.sr, SPI_SR_RXNE),
                                 !.rx_fifo_has_data = FALSE]),
             ret |-> s.dr_rx]
      [] addr = SPI_CSCTRL -> [s |-> s, ret |-> s.csctrl]
      [] OTHER -> [s |-> s, ret |-> 0]

\* WriteSr clearing every bit the written value names
WriteSr_ClearAny(s, value) ==
    g233_spi_update_irq([s EXCEPT !.sr = BitClear(s.sr, value)])

\* case SPI_SR of g233_spi_write
WriteSr(s, value) ==
    g233_spi_update_irq(
        [s EXCEPT !.sr = BitClear(s.sr, BitAnd(value, SPI_SR_UDR + SPI_SR_OVR))])

\* WriteDr testing the receive state after the transfer has set it
WriteDr_LateOverrun(s, value, rx) ==
    LET t == [s EXCEPT !.dr_tx = value % 256,
                       !.dr_rx = rx % 256,
                       !.sr = BitOr(s.sr, SPI_SR_TXE + SPI_SR_RXNE),
                       !.rx_fifo_has_data = TRUE]
        overrun == t.rx_fifo_has_data /\ BitAnd(t.sr, SPI_SR_RXNE) # 0
    IN  g233_spi_update_irq(
            IF overrun THEN [t EXCEPT !.sr = BitOr(t.sr, SPI_SR_OVR)] ELSE t)

\* case SPI_DR of g233_spi_write with the enable bit set; rx is what
\* ssi_transfer(s->ssi, s->dr_tx) returned
WriteDr(s, value, rx) ==
    LET overrun == s.rx_fifo_has_data /\ BitAnd(s.sr, SPI_SR_RXNE) # 0
        t == [s EXCEPT !.dr_tx = value % 256,
                       !.sr = BitOr(BitClear(s.sr, SPI_SR_TXE), SPI_SR_BSY)]
        o == IF overrun THEN [t EXCEPT !.sr = BitOr(t.sr, SPI_SR_OVR)] ELSE t
    IN  g233_spi_update_irq(
            [o EXCEPT !.dr_rx = rx % 256,
                      !.sr = BitClear(BitOr(o.sr, SPI_SR_TXE + SPI_SR_RXNE),
                                      SPI_SR_BSY),
                      !.rx_fifo_has_data = TRUE])

\* case SPI_CSCTRL: the level driven on the line of each slot the code handles
CsDrive(value, i) ==
    IF BitAnd(value, 17 * (2 ^ i)) = 17 * (2 ^ i) THEN 0 ELSE 1

\* slots whose line a CSCTRL write drives
CsSlotsWritten == {0, 1}

WriteCsctrl(s, value) ==
    [s EXCEPT !.prev_csctrl = s.csctrl,
              !.csctrl = value,
              !.cs = [i \in 0..(NUM_CS - 1) |->
                        IF i \in CsSlotsWritten /\ i \in s.cs_lines
                        THEN CsDrive(value, i)
                        ELSE s.cs[i]]]

\* WriteTransfers without the test of the enable bit
WriteTransfers_NoEnable(s, addr) ==
    addr = SPI_DR

\* does this write call ssi_transfer?
WriteTransfers(s, addr) ==
    addr = SPI_DR /\ BitAnd(s.cr1, SPI_CR1_SPE) # 0

\* select lines on which this write calls qemu_set_irq
WriteDrives(s, addr) ==
    IF addr = SPI_CSCTRL THEN CsSlotsWritten \cap s.cs_lines ELSE {}

g233_spi_write(s, addr, value, rx) ==
    CASE addr = SPI_CR1 -> [s EXCEPT !.cr1 = value]
      [] addr = SPI_CR2 -> g233_spi_update_irq([s EXCEPT !.cr2 = value])
      [] addr = SPI_SR -> WriteSr(s, value)
      [] addr = SPI_DR ->
            IF WriteTransfers(s, addr) THEN WriteDr(s, value, rx) ELSE s
      [] addr = SPI_CSCTRL -> WriteCsctrl(s, value)
      [] OTHER -> s

\* g233_spi_reset without the loop that drives the select lines
g233_spi_reset_NoLines(s) ==
    [s EXCEPT !.cr1 = 0,
              !.cr2 = 0,
              !.sr = 2,
              !.dr_tx = 0,
              !.dr_rx = 0,
              !.csctrl = 0,
              !.prev_csctrl = 0,
              !.rx_fifo_has_data = FALSE,
              !.interrupt_count = 0]

g233_spi_reset(s) ==
    [s EXCEPT !.cr1 = 0,
              !.cr2 = 0,
              !.sr = 2,
              !.dr_tx = 0,
              !.dr_rx = 0,
              !.csctrl = 0,
              !.prev_csctrl = 0,
              !.rx_fifo_has_data = FALSE,
              !.interrupt_count = 0,
              !.cs = [i \in 0..(NUM_CS - 1) |->
                        IF i \in s.cs_lines THEN 1 ELSE s.cs[i]]]

\* the controller after realize; no line has been driven yet
g233_spi_realize(lines) ==
    [cr1 |-> 0, cr2 |-> 0, sr |-> 0, dr_tx |-> 0, dr_rx |-> 0,
     csctrl |-> 0, prev_csctrl |-> 0,
     rx_fifo_has_data |-> FALSE, interrupt_count |-> 0,
     cs_lines |-> lines,
     irq |-> FALSE,
     cs |-> [i \in 0..(NUM_CS - 1) |-> 1]]

(***************************************************************************)
(* Observer of the host's byte stream.  It follows three sequences from    *)
(* the events alone (the entry point called and its argument), never from  *)
(* the device's own counters:                                              *)
(*   program / read-back: WREN, PAGE_PROGRAM, three address bytes, data    *)
(*     bytes, select deassertion, READ_DATA, the same address bytes, reads *)
(*   erase: SECTOR_ERASE sent with the latch set, three address bytes      *)
(*   identification: JEDEC_ID, reads                                       *)
(*   abandoned program: a device reset after at least one data byte, then  *)
(*     a select deassertion                                                *)
(* ph names the point reached, a the address bytes sent, d the data bytes  *)
(* sent (the first 256 of them), x the data bytes sent after the 256th,    *)
(* pre the storage when the sequence began, k the bytes read back.         *)
(* Beside the sequences it keeps two short histories: sr counts the        *)
(* transfers since a READ_STATUS opcode (1 the opcode, 2 the transfer that *)
(* follows it, 3 the one after), and was names the command state and the   *)
(* address bytes collected in which the last event, a select deassertion,  *)
(* found the device.                                                       *)
(***************************************************************************)
NoWas == [state |-> "", addr_bytes |-> 0]

MonNone ==
    [ph |-> "none", a |-> <<>>, d |-> <<>>, pre |-> <<>>, k |-> 0,
     x |-> 0, sr |-> 0, was |-> NoWas]

MonStart(ph, s) == [MonNone EXCEPT !.ph = ph, !.pre = s.storage]

IsDeassert(fn, arg) ==
    \/ fn = "set_cs" /\ arg = 0
    \/ fn = "flash_cs" /\ arg = 1

IsAssert(fn, arg) ==
    \/ fn = "set_cs" /\ arg = 1
    \/ fn = "flash_cs" /\ arg = 0

\* the address three bytes form, first byte most significant
BigEndian(a) == a[1] * 65536 + a[2] * 256 + a[3]

\* the sequence followed, after the event fn(arg), which found the device
\* in s
MonPhase(m, s, fn, arg) ==
    LET xfer == fn = "transfer"
    IN  IF m.ph = "wren" /\ xfer /\ arg = CMD_PP
        THEN [m EXCEPT !.ph = "addr"]
        ELSE IF m.ph \in {"addr", "eaddr"} /\ xfer
        THEN [m EXCEPT !.a = Append(m.a, arg),
                       !.ph = IF Len(m.a) < 2 THEN m.ph
                              ELSE IF m.ph = "addr" THEN "data" ELSE "erased"]
        ELSE IF m.ph = "data" /\ xfer /\ Len(m.d) < PAGE_BUF_LEN
        THEN [m EXCEPT !.d = Append(m.d, arg)]
        ELSE IF m.ph = "data" /\ xfer
        THEN m
        ELSE IF m.ph = "data" /\ IsDeassert(fn, arg) /\ Len(m.d) >= 1
        THEN [m EXCEPT !.ph = "done"]
        ELSE IF m.ph = "data" /\ fn = "flash_reset" /\ Len(m.d) >= 1
        THEN [m EXCEPT !.ph = "reset"]
        ELSE IF m.ph = "reset" /\ IsDeassert(fn, arg)
        THEN [m EXCEPT !.ph = "resetcs"]
        ELSE IF m.ph = "done" /\ xfer /\ arg = CMD_READ
        THEN [m EXCEPT !.ph = "raddr"]
        ELSE IF m.ph = "raddr" /\ xfer /\ arg = m.a[m.k + 1]
        THEN IF m.k = 2 THEN [m EXCEPT !.ph = "rdata", !.k = 0]
             ELSE [m EXCEPT !.k = m.k + 1]
        ELSE IF m.ph = "rdata" /\ xfer /\ m.k < Len(m.d)
        THEN [m EXCEPT !.k = m.k + 1]
        ELSE IF m.ph = "id" /\ xfer
        THEN [m EXCEPT !.k = m.k + 1]
        ELSE IF xfer /\ s.state = STATE_IDLE /\ arg = CMD_WREN
        THEN MonStart("wren", s)
        ELSE IF xfer /\ s.state = STATE_IDLE /\ arg = CMD_SE /\ s.write_enable
        THEN MonStart("eaddr", s)
        ELSE IF xfer /\ s.state = STATE_IDLE /\ arg = CMD_JEDEC_ID
        THEN MonStart("id", s)
        ELSE MonNone

\* the transfers since a READ_STATUS opcode
SrStep(m, s, fn, arg) ==
    IF fn = "transfer" /\ m.sr = 1
    THEN 2
    ELSE IF fn = "transfer" /\ s.state = STATE_IDLE /\ arg = CMD_RDSR
    THEN 1
    ELSE IF fn = "transfer" /\ m.sr = 2
    THEN 3
    ELSE 0

\* the observer after the event fn(arg), which found the device in s
MonStep(m, s, fn, arg) ==
    LET n == MonPhase(m, s, fn, arg)
    IN  [n EXCEPT !.x = IF n.ph \notin {"data", "done", "raddr", "rdata"} THEN 0
                        ELSE IF m.ph = "data" /\ fn = "transfer"
                                /\ Len(m.d) >= PAGE_BUF_LEN
                        THEN m.x + 1
                        ELSE m.x,
                  !.sr = SrStep(m, s, fn, arg),
                  !.was = IF IsDeassert(fn, arg)
                          THEN [state |-> s.state, addr_bytes |-> s.addr_bytes]
                          ELSE NoWas]

(***************************************************************************)
(* History of the write-enable permission, kept from the events: the       *)
(* event fn(arg) found the device in s.                                    *)
(***************************************************************************)
\* the event completes a sector erase: the third address byte after
\* SECTOR_ERASE
IsErase(s, fn, arg) ==
    /\ fn = "transfer"
    /\ s.state = STATE_READING_CMD
    /\ s.cmd = CMD_SE
    /\ s.addr_bytes = 2

\* the event commits a page program: a select deassertion after at least
\* one data byte
IsCommit(s, fn, arg) ==
    /\ IsDeassert(fn, arg)
    /\ s.state = STATE_WRITING_DATA
    /\ s.page_pos > 0

ArmStep(a, s, fn, arg) ==
    IF IsErase(s, fn, arg) \/ IsCommit(s, fn, arg) \/ fn = "flash_reset"
    THEN FALSE
    ELSE IF fn = "transfer" /\ s.state = STATE_IDLE /\ arg = CMD_WREN
    THEN TRUE
    ELSE IF fn = "transfer" /\ s.state = STATE_IDLE /\ arg = CMD_WRDI
    THEN FALSE
    ELSE a

(***************************************************************************)
(* The host driving the flash device alone.                                *)
(***************************************************************************)
\* bytes the host sends as an opcode: the seven the switch knows, and WRSR,
\* which has no case
Opcodes ==
    {CMD_JEDEC_ID, CMD_READ, CMD_WREN, CMD_WRDI, CMD_RDSR, CMD_WRSR,
     CMD_PP, CMD_SE}

\* addresses the host uses with a device of the given size: the last byte
\* of sector 0, an unaligned offset of sector 1, the last byte of the
\* array, and an offset beyond its end
HostAddrs(size) == {4095, 4112, size - 1, size + 16}

\* byte k (0 first, most significant) of the 24-bit address A
AddrByte(A, k) == (A \div (256 ^ (2 - k))) % 256

\* bytes the host sends as the next address byte: those that continue one
\* of its addresses after the bytes already sent
AddrBytes(s) ==
    {AddrByte(A, s.addr_bytes) :
        A \in {B \in HostAddrs(s.size) :
                 s.addr_bytes < 3
                 /\ B \div (256 ^ (3 - s.addr_bytes)) = s.addr}}

\* bytes the host sends as the k-th data byte of a page program (k = 0
\* first); 6 is also the WREN opcode
DataBytes(k) == IF k = 0 THEN {171, 6} ELSE {172 + k}

\* the byte the host sends while it clocks a response out: the WREN opcode
DummyBytes == {6}

TxBytes(s) ==
    CASE s.state = STATE_IDLE -> Opcodes
      [] s.state = STATE_READING_CMD -> AddrBytes(s)
      [] s.state = STATE_WRITING_DATA -> DataBytes(s.page_pos)
      [] OTHER -> DummyBytes

\* the host stays within the bounds
HostSends(s, tx) ==
    /\ tx \in TxBytes(s)
    /\ s.state = STATE_IDLE /\ tx = CMD_WREN => nwren < MaxWren
    /\ s.state = STATE_WRITING_DATA => s.page_pos < MaxData
    /\ s.state = STATE_READING_DATA => s.data_pos < MaxRead
    /\ mon.ph = "id" => mon.k < MaxIdRead

CountWren(s, tx) ==
    IF s.state = STATE_IDLE /\ tx = CMD_WREN THEN nwren + 1 ELSE nwren

Op(fn, arg, val, ret) == [fn |-> fn, arg |-> arg, val |-> val, ret |-> ret]

InitFlash ==
    /\ \E size \in Sizes : flash = g233_flash_reset(g233_flash_realize(size))
    /\ spi = g233_spi_reset(g233_spi_realize({0}))
    /\ op = Op("init", 0, 0, 0)
    /\ nwren = 0
    /\ mon = MonNone
    /\ armed = FALSE

Transfer(tx) ==
    /\ HostSends(flash, tx)
    /\ LET r == g233_flash_transfer(flash, tx)
       IN  /\ flash' = r.s
           /\ op' = Op("transfer", tx, 0, r.rx)
    /\ nwren' = CountWren(flash, tx)
    /\ mon' = MonStep(mon, flash, "transfer", tx)
    /\ armed' = ArmStep(armed, flash, "transfer", tx)
    /\ UNCHANGED spi

SetCs(select) ==
    /\ flash' = g233_flash_set_cs(flash, select)
    /\ op' = Op("set_cs", IF select THEN 1 ELSE 0, 0, 0)
    /\ mon' = MonStep(mon, flash, "set_cs", IF select THEN 1 ELSE 0)
    /\ armed' = ArmStep(armed, flash, "set_cs", IF select THEN 1 ELSE 0)
    /\ UNCHANGED <<spi, nwren>>

FlashCs(level) ==
    /\ flash' = g233_flash_cs(flash, 0, level)
    /\ op' = Op("flash_cs", level, 0, 0)
    /\ mon' = MonStep(mon, flash, "flash_cs", level)
    /\ armed' = ArmStep(armed, flash, "flash_cs", level)
    /\ UNCHANGED <<spi, nwren>>

FlashReset ==
    /\ flash' = g233_flash_reset(flash)
    /\ op' = Op("flash_reset", 0, 0, 0)
    /\ mon' = MonStep(mon, flash, "flash_reset", 0)
    /\ armed' = ArmStep(armed, flash, "flash_reset", 0)
    /\ UNCHANGED <<spi, nwren>>

NextFlash ==
    \/ \E tx \in TxBytes(flash) : Transfer(tx)
    \/ \E select \in BOOLEAN : SetCs(select)
    \/ \E level \in {0, 1} : FlashCs(level)
    \/ FlashReset

SpecFlash == InitFlash /\ [][NextFlash]_vars

(***************************************************************************)
(* The host filling a page.  It has sent WREN, PAGE_PROGRAM, the three     *)
(* bytes of an address and all but the last two bytes of a page: Init is   *)
(* the device after these transfers, computed by g233_flash_transfer.  It  *)
(* then sends the rest of the page and up to MaxExtra bytes more, and goes *)
(* on as the host of the flash alone does.                                 *)
(***************************************************************************)
\* the k-th data byte (k = 0 first) the host sends in a page program
PageData(k) == (k * 7 + 3 + (k \div PAGE_BUF_LEN)) % 256

\* data bytes already sent in the initial state
PagePrefixLen == PAGE_BUF_LEN - 2

\* addresses the host programs: a page across the boundary of sectors 0 and
\* 1, the last 256 bytes of the array, and one byte further
PageAddrs(size) == {4095, size - PAGE_BUF_LEN, size - PAGE_BUF_LEN + 1}

PagePrefix(A) ==
    <<CMD_WREN, CMD_PP, AddrByte(A, 0), AddrByte(A, 1), AddrByte(A, 2)>>
        \o [k \in 1..PagePrefixLen |-> PageData(k - 1)]

\* the device and the histories after the transfer of tx
HostStep(st, tx) ==
    [flash |-> g233_flash_transfer(st.flash, tx).s,
     mon |-> MonStep(st.mon, st.flash, "transfer", tx),
     armed |-> ArmStep(st.armed, st.flash, "transfer", tx)]

\* the same after the transfers of txs[i], ..., txs[j], in order; the
\* range is halved, and the state after the first half computed before the
\* second half is entered, to keep the evaluation shallow
RECURSIVE HostRunFrom(_, _, _, _)
HostRunFrom(st, txs, i, j) ==
    IF i > j THEN st
    ELSE IF i = j THEN HostStep(st, txs[i])
    ELSE LET mid == (i + j) \div 2
         IN  CHOOSE r \in {HostRunFrom(l, txs, mid + 1, j) :
                             l \in {HostRunFrom(st, txs, i, mid)}} : TRUE

HostRun(st, txs) == HostRunFrom(st, txs, 1, Len(txs))

PageAddrBytes(s) ==
    {AddrByte(A, s.addr_bytes) :
        A \in {B \in PageAddrs(s.size) :
                 s.addr_bytes < 3
                 /\ B \div (256 ^ (3 - s.addr_bytes)) = s.addr}}

PageTxBytes(s) ==
    CASE s.state = STATE_IDLE -> {CMD_WREN, CMD_PP, CMD_READ}
      [] s.state = STATE_READING_CMD -> PageAddrBytes(s)
      [] s.state = STATE_WRITING_DATA ->
            {PageData(IF mon.ph = "data" THEN Len(mon.d) + mon.x ELSE s.page_pos)}
      [] OTHER -> DummyBytes

\* the host stays within the bounds
PageSends(s, tx) ==
    /\ tx \in PageTxBytes(s)
    /\ s.state = STATE_IDLE /\ tx = CMD_WREN => nwren < MaxWren
    /\ s.state = STATE_WRITING_DATA
         => \/ s.page_pos < MaxData
            \/ /\ mon.ph = "data"
               /\ Len(mon.d) >= PagePrefixLen
               /\ mon.x < MaxExtra
    /\ s.state = STATE_READING_DATA => s.data_pos < MaxRead

InitPage ==
    /\ \E size \in Sizes : \E A \in PageAddrs(size) :
          LET st == HostRun([flash |-> g233_flash_reset(g233_flash_realize(size)),
                             mon |-> MonNone,
                             armed |-> FALSE],
                            PagePrefix(A))
          IN  /\ flash = st.flash
              /\ mon = st.mon
              /\ armed = st.armed
    /\ spi = g233_spi_reset(g233_spi_realize({0}))
    /\ op = Op("transfer", PageData(PagePrefixLen - 1), 0, 0)
    /\ nwren = 1

PageTransfer(tx) ==
    /\ PageSends(flash, tx)
    /\ LET r == g233_flash_transfer(flash, tx)
       IN  /\ flash' = r.s
           /\ op' = Op("transfer", tx, 0, r.rx)
    /\ nwren' = CountWren(flash, tx)
    /\ mon' = MonStep(mon, flash, "transfer", tx)
    /\ armed' = ArmStep(armed, flash, "transfer", tx)
    /\ UNCHANGED spi

NextPage ==
    \/ \E tx \in PageTxBytes(flash) : PageTransfer(tx)
    \/ \E select \in BOOLEAN : SetCs(select)
    \/ \E level \in {0, 1} : FlashCs(level)
    \/ FlashReset

SpecPage == InitPage /\ [][NextPage]_vars

(***************************************************************************)
(* The host driving the controller alone.  The device on the SSI bus is    *)
(* unknown: ssi_transfer returns any of a few 32-bit values.               *)
(***************************************************************************)
\* register offsets the host accesses; 20 is not a register
RegOffsets == {SPI_CR1, SPI_CR2, SPI_SR, SPI_DR, SPI_CSCTRL, 20}

\* values the host writes to each register
WriteValues(addr) ==
    CASE addr = SPI_CR1 -> {SPI_CR1_SPE + SPI_CR1_MSTR, SPI_CR1_MSTR}
      [] addr = SPI_CR2 -> {0, SPI_CR2_RXNEIE, SPI_CR2_ERRIE, SPI_CR2_TXEIE}
      [] addr = SPI_SR -> {SPI_SR_OVR, SPI_SR_UDR + SPI_SR_TXE + SPI_SR_RXNE}
      [] addr = SPI_DR -> {256 + 6}
      [] addr = SPI_CSCTRL -> {1, 255}
      [] OTHER -> {0}

\* values ssi_transfer returns
BusResponses == {0, 256 + 90}

\* sets of slots the board attaches a select line to: here slots 0 and 2
\* have a line and slots 1 and 3 have none
AttachedSets == {{0, 2}}

\* the host stops when the interrupt counter is at its bound
CountBound(s) == s.interrupt_count <= MaxIrqCount

InitSpi ==
    /\ flash = g233_flash_reset(g233_flash_realize(0))
    /\ \E lines \in AttachedSets : spi = g233_spi_reset(g233_spi_realize(lines))
    /\ op = Op("init", 0, 0, 0)
    /\ nwren = 0
    /\ mon = MonNone
    /\ armed = FALSE

SpiRead(addr) ==
    /\ LET r == g233_spi_read(spi, addr)
       IN  /\ CountBound(r.s)
           /\ spi' = r.s
           /\ op' = Op("spi_read", addr, 0, r.ret)
    /\ UNCHANGED <<flash, nwren, mon, armed>>

SpiWrite(addr, value, rx) ==
    /\ WriteTransfers(spi, addr) \/ rx = 0
    /\ LET s == g233_spi_write(spi, addr, value, rx)
       IN  /\ CountBound(s)
           /\ spi' = s
           /\ op' = Op("spi_write", addr, value, rx)
    /\ UNCHANGED <<flash, nwren, mon, armed>>

SpiReset ==
    /\ spi' = g233_spi_reset(spi)
    /\ op' = Op("spi_reset", 0, 0, 0)
    /\ UNCHANGED <<flash, nwren, mon, armed>>

NextSpi ==
    \/ \E addr \in RegOffsets : SpiRead(addr)
    \/ \E addr \in RegOffsets : \E value \in WriteValues(addr) :
          \E rx \in BusResponses : SpiWrite(addr, value, rx)
    \/ SpiReset

SpecSpi == InitSpi /\ [][NextSpi]_vars

(***************************************************************************)
(* The host driving the controller with the flash device on its bus.  The  *)
(* flash is the only device of the bus and its select input is wired to    *)
(* the controller's select line of slot FlashSlot.  The bus delivers a     *)
(* transfer to the device whose select line is asserted (low) and returns  *)
(* 0 when none is; a level driven on a select line reaches the handler the *)
(* device registered for it.                                               *)
(***************************************************************************)
FlashSlot == 0

\* the device and the value returned by ssi_transfer(s->ssi, tx)
ssi_transfer(sp, fl, tx) ==
    IF sp.cs[FlashSlot] = 0 THEN g233_flash_transfer(fl, tx) ELSE Ret(fl, 0)

\* the flash after qemu_set_irq on each line of `lines`, which sp now holds
\* the level of
qemu_set_irq(fl, sp, lines) ==
    IF FlashSlot \in lines THEN g233_flash_cs(fl, 0, sp.cs[FlashSlot]) ELSE fl

\* the observer after the same
MonDriven(m, fl, sp, lines) ==
    IF FlashSlot \in lines THEN MonStep(m, fl, "flash_cs", sp.cs[FlashSlot]) ELSE m

ArmDriven(a, fl, sp, lines) ==
    IF FlashSlot \in lines THEN ArmStep(a, fl, "flash_cs", sp.cs[FlashSlot]) ELSE a

\* what the host sends through the controller: two opcodes, one address,
\* one data byte per position
SysOpcodes == {CMD_WREN, CMD_PP}

\* the last byte of the array: a program of one byte fits, one of two
\* bytes does not
SysAddrs == {2 * MiB - 1}

SysTxBytes(s) ==
    CASE s.state = STATE_IDLE -> SysOpcodes
      [] s.state = STATE_READING_CMD ->
            {AddrByte(A, s.addr_bytes) : A \in SysAddrs}
      [] s.state = STATE_WRITING_DATA -> {171 + s.page_pos}
      [] OTHER -> DummyBytes

\* registers the host reads and writes
SysReadOffsets == {SPI_DR}

SysWriteOffsets == {SPI_CR1, SPI_CR2, SPI_DR, SPI_CSCTRL}

SysWriteValues(addr) ==
    CASE addr = SPI_CR1 -> {SPI_CR1_SPE + SPI_CR1_MSTR, 0}
      [] addr = SPI_CR2 -> {SPI_CR2_RXNEIE}
      [] addr = SPI_DR -> SysTxBytes(flash)
      [] addr = SPI_CSCTRL -> {17, 0}
      [] OTHER -> {0}

\* the host stops one interrupt before the bound
SysCountBound(s) == s.interrupt_count < MaxIrqCount

\* the host stays within the bounds, and one WREN below that of the host
\* of the flash alone
SysSends(s, tx) ==
    /\ s.state = STATE_IDLE /\ tx = CMD_WREN => nwren < MaxWren - 1
    /\ s.state = STATE_WRITING_DATA => s.page_pos < MaxData
    /\ s.state = STATE_READING_DATA => s.data_pos < MaxRead

\* will this write reach the flash?
Delivered(addr) == WriteTransfers(spi, addr) /\ spi.cs[FlashSlot] = 0

InitSys ==
    /\ flash = g233_flash_reset(g233_flash_realize(2 * MiB))
    /\ spi = g233_spi_reset(g233_spi_realize({FlashSlot}))
    /\ op = Op("init", 0, 0, 0)
    /\ nwren = 0
    /\ mon = MonNone
    /\ armed = FALSE

SysRead(addr) ==
    /\ LET r == g233_spi_read(spi, addr)
       IN  /\ SysCountBound(r.s)
           /\ spi' = r.s
           /\ op' = Op("spi_read", addr, 0, r.ret)
    /\ UNCHANGED <<flash, nwren, mon, armed>>

SysWrite(addr, value) ==
    LET tx == value % 256
        xfer == WriteTransfers(spi, addr)
        r == IF xfer THEN ssi_transfer(spi, flash, tx) ELSE Ret(flash, 0)
        s == g233_spi_write(spi, addr, value, r.rx)
        lines == WriteDrives(spi, addr)
    IN  /\ Delivered(addr) => SysSends(flash, tx)
        /\ SysCountBound(s)
        /\ spi' = s
        /\ flash' = qemu_set_irq(r.s, s, lines)
        /\ op' = Op("spi_write", addr, value, r.rx)
        /\ nwren' = IF Delivered(addr) THEN CountWren(flash, tx) ELSE nwren
        /\ mon' = IF Delivered(addr) THEN MonStep(mon, flash, "transfer", tx)
                  ELSE MonDriven(mon, flash, s, lines)
        /\ armed' = IF Delivered(addr) THEN ArmStep(armed, flash, "transfer", tx)
                    ELSE ArmDriven(armed, flash, s, lines)

SysReset ==
    /\ spi' = g233_spi_reset(spi)
    /\ flash' = qemu_set_irq(flash, spi', spi.cs_lines)
    /\ op' = Op("spi_reset", 0, 0, 0)
    /\ mon' = MonDriven(mon, flash, spi', spi.cs_lines)
    /\ armed' = ArmDriven(armed, flash, spi', spi.cs_lines)
    /\ UNCHANGED nwren

NextSys ==
    \/ \E addr \in SysReadOffsets : SysRead(addr)
    \/ \E addr \in SysWriteOffsets : \E value \in SysWriteValues(addr) :
          SysWrite(addr, value)
    \/ SysReset
    \/ FlashReset

SpecSys == InitSys /\ [][NextSys]_vars

(***************************************************************************)
(* Properties of the flash device.                                         *)
(***************************************************************************)
\* offsets at which either array may differ from 0xFF
Touched(st1, st2) == DOMAIN st1 \cup DOMAIN st2

\* C1 (program atomicity): a transfer taken in WRITING_DATA and a select
\* assertion leave storage as it was; storage changes only by a select
\* deassertion taken in WRITING_DATA with page_pos > 0 or by the third
\* address byte of a sector erase; and a deassertion leaves the device idle
\* with an empty page buffer, so the buffer is flushed at most once per
\* transaction.
C1_ProgramAtomicity ==
    [][/\ (op'.fn = "transfer" /\ flash.state = STATE_WRITING_DATA)
            => flash'.storage = flash.storage
       /\ IsAssert(op'.fn, op'.arg) => flash'.storage = flash.storage
       /\ flash'.storage # flash.storage
            => \/ /\ IsDeassert(op'.fn, op'.arg)
                  /\ flash.state = STATE_WRITING_DATA
                  /\ flash.page_pos > 0
               \/ /\ op'.fn = "transfer"
                  /\ flash.state = STATE_READING_CMD
                  /\ flash.cmd = CMD_SE
       /\ IsDeassert(op'.fn, op'.arg)
            => flash'.state = STATE_IDLE /\ flash'.page_pos = 0
      ]_vars

\* a deassertion has just flushed a page buffer of two bytes into storage
C1_Witness ==
    /\ IsDeassert(op.fn, op.arg)
    /\ mon.ph = "done"
    /\ Len(mon.d) = 2
    /\ flash.storage # mon.pre

\* C2 (program / read round trip): after WREN, PAGE_PROGRAM, the address
\* bytes of A, n data bytes d with A + n <= size and a select deassertion,
\* storage holds d at A .. A+n-1 and its previous value everywhere else;
\* and after READ_DATA with the same address bytes the k-th transfer
\* returns d[k], for k = 1 .. n.
C2_RoundTrip ==
    LET A == BigEndian(mon.a)
        n == Len(mon.d)
    IN  (mon.ph \in {"done", "raddr", "rdata"} /\ A + n <= flash.size)
        => /\ \A off \in Touched(flash.storage, mon.pre) \cup (A .. (A + n - 1)) :
                StorageByte(flash.storage, off) =
                    IF off \in A .. (A + n - 1)
                    THEN mon.d[off - A + 1]
                    ELSE StorageByte(mon.pre, off)
           /\ (mon.ph = "rdata" /\ mon.k >= 1) => op.ret = mon.d[mon.k]

\* the second byte of a two-byte page has been read back over storage that
\* already held other data
C2_Witness ==
    /\ mon.ph = "rdata"
    /\ mon.k = 2
    /\ Len(mon.d) = 2
    /\ BigEndian(mon.a) + 2 <= flash.size
    /\ mon.pre # <<>>
    /\ op.ret = mon.d[2]

\* C3 (write-enable gating): PAGE_PROGRAM or SECTOR_ERASE received in
\* STATE_IDLE with write_enable clear returns 0 and leaves the state idle and
\* storage unchanged; no step changes storage while write_enable is clear,
\* and write_enable is set only by a WREN opcode received in STATE_IDLE.
C3_WriteEnableGating ==
    [][/\ (/\ op'.fn = "transfer"
           /\ flash.state = STATE_IDLE
           /\ ~flash.write_enable
           /\ op'.arg \in {CMD_PP, CMD_SE})
            => /\ flash'.state = STATE_IDLE
               /\ flash'.storage = flash.storage
               /\ op'.ret = 0
       /\ ~flash.write_enable => flash'.storage = flash.storage
       /\ (~flash.write_enable /\ flash'.write_enable)
            => /\ op'.fn = "transfer"
               /\ op'.arg = CMD_WREN
               /\ flash.state = STATE_IDLE
      ]_vars

\* PAGE_PROGRAM was refused on a device that holds programmed data
C3_Witness ==
    /\ op.fn = "transfer"
    /\ op.arg = CMD_PP
    /\ flash.cmd = CMD_PP
    /\ flash.state = STATE_IDLE
    /\ ~flash.write_enable
    /\ flash.storage # <<>>

\* C4 (erase alignment): once SECTOR_ERASE, sent with the latch set, has
\* been followed by the three bytes of an address a whose sector base is
\* below size, every byte of [4096k, 4096k + 4095], k = a div 4096, is 0xFF
\* and every other byte has the value it had before the erase, without any
\* select deassertion.
C4_EraseAlignment ==
    LET a == BigEndian(mon.a)
        k == a \div 4096
    IN  (mon.ph = "erased" /\ 4096 * k < flash.size)
        => \A off \in Touched(flash.storage, mon.pre) :
              StorageByte(flash.storage, off) =
                  IF off \in (4096 * k) .. (4096 * k + 4095)
                  THEN 255
                  ELSE StorageByte(mon.pre, off)

\* an erase of sector 1 at an unaligned address has wiped the byte at the
\* sector's base and kept the last byte of sector 0
C4_Witness ==
    /\ mon.ph = "erased"
    /\ BigEndian(mon.a) = 4112
    /\ 4096 \in DOMAIN mon.pre
    /\ 4095 \in DOMAIN mon.pre
    /\ 4096 \notin DOMAIN flash.storage
    /\ 4095 \in DOMAIN flash.storage

\* C8 (JEDEC id): after opcode 0x9F received in STATE_IDLE the first three
\* transfers return 0xEF, 0x30 and 0x15 (2 MiB) or 0x16 (4 MiB), and every
\* later transfer of the transaction returns 0xFF.
C8_JedecId ==
    (mon.ph = "id" /\ mon.k >= 1)
        => op.ret = CASE mon.k = 1 -> 239
                      [] mon.k = 2 -> 48
                      [] mon.k = 3 -> IF flash.size = 2 * MiB THEN 21 ELSE 22
                      [] OTHER -> 255

\* a fifth byte has been clocked out of a 4 MiB device after the opcode
C8_Witness ==
    /\ mon.ph = "id"
    /\ mon.k = 5
    /\ flash.size = 4 * MiB
    /\ op.ret = 255

(***************************************************************************)
(* Properties of the controller.                                           *)
(***************************************************************************)
Bit(v, b) == BitAnd(v, b) # 0

IsDrWrite(o) == o.fn = "spi_write" /\ o.arg = SPI_DR

\* the interrupt aggregation of the specification, on the registers of s
Aggregate(s) ==
    \/ Bit(s.cr2, SPI_CR2_RXNEIE) /\ Bit(s.sr, SPI_SR_RXNE)
    \/ Bit(s.cr2, SPI_CR2_TXEIE) /\ Bit(s.sr, SPI_SR_TXE)
    \/ Bit(s.cr2, SPI_CR2_ERRIE) /\ (Bit(s.sr, SPI_SR_UDR) \/ Bit(s.sr, SPI_SR_OVR))

\* C5 (overrun ordering): a DR write with the controller enabled leaves the
\* overrun bit set exactly if it was set already or receive-not-empty was
\* set just before the write; the transfer is performed in either case: the
\* transmit latch holds the byte written, the receive latch the response of
\* this transfer, and receive-not-empty is set.  A DR write that directly
\* follows an enabled DR write leaves overrun set.
C5_OverrunOrdering ==
    [][(IsDrWrite(op') /\ Bit(spi.cr1, SPI_CR1_SPE))
        => /\ Bit(spi'.sr, SPI_SR_OVR)
                <=> (Bit(spi.sr, SPI_SR_OVR) \/ Bit(spi.sr, SPI_SR_RXNE))
           /\ spi'.dr_tx = op'.val % 256
           /\ spi'.dr_rx = op'.ret % 256
           /\ Bit(spi'.sr, SPI_SR_RXNE)
           /\ IsDrWrite(op) => Bit(spi'.sr, SPI_SR_OVR)
      ]_vars

\* a second DR write in a row has set overrun, and the receive latch holds
\* its response, which differs from the first one
C5_Witness ==
    /\ IsDrWrite(op)
    /\ Bit(spi.sr, SPI_SR_OVR)
    /\ ~Bit(spi.cr2, SPI_CR2_ERRIE)
    /\ spi.interrupt_count = 0
    /\ op.ret = 256 + 90
    /\ spi.dr_rx = 90

\* C6 (interrupt aggregation), as claimed: after every register read or
\* write the level last driven on the interrupt line is the aggregation of
\* the registers as they are after that operation.
C6_InterruptAggregation ==
    op.fn \in {"spi_read", "spi_write"} => spi.irq = Aggregate(spi)

\* C7 (select-line derivation), as claimed: after a CSCTRL write of v every
\* attached slot i of 0..3 has its line at the level "not (enable bit i and
\* active bit i of v)", and prev_csctrl holds the value CSCTRL had before.
C7_SelectLines ==
    [][(op'.fn = "spi_write" /\ op'.arg = SPI_CSCTRL)
        => /\ \A i \in spi.cs_lines :
                spi'.cs[i] = IF Bit(op'.val, 2 ^ i) /\ Bit(op'.val, 2 ^ (i + 4))
                             THEN 0 ELSE 1
           /\ spi'.prev_csctrl = spi.csctrl
           /\ spi'.csctrl = op'.val
      ]_vars

\* C9 (SR write-to-clear): an SR write of v clears the underrun and overrun
\* bits that v names and no other bit of SR, and changes no other register
\* or latch; and the overrun bit, once set, is cleared only by an SR write
\* that names it or by a reset.
C9_SrWriteToClear ==
    [][/\ (op'.fn = "spi_write" /\ op'.arg = SPI_SR)
            => /\ \A b \in {SPI_SR_RXNE, SPI_SR_TXE, SPI_SR_BSY} :
                    Bit(spi'.sr, b) <=> Bit(spi.sr, b)
               /\ \A b \in {SPI_SR_UDR, SPI_SR_OVR} :
                    Bit(spi'.sr, b) <=> (Bit(spi.sr, b) /\ ~Bit(op'.val, b))
               /\ spi'.cr1 = spi.cr1 /\ spi'.cr2 = spi.cr2
               /\ spi'.dr_tx = spi.dr_tx /\ spi'.dr_rx = spi.dr_rx
               /\ spi'.csctrl = spi.csctrl
               /\ spi'.prev_csctrl = spi.prev_csctrl
               /\ spi'.rx_fifo_has_data = spi.rx_fifo_has_data
       /\ (Bit(spi.sr, SPI_SR_OVR) /\ ~Bit(spi'.sr, SPI_SR_OVR))
            => \/ op'.fn = "spi_reset"
               \/ /\ op'.fn = "spi_write" /\ op'.arg = SPI_SR
                  /\ Bit(op'.val, SPI_SR_OVR)
      ]_vars

\* an SR write naming underrun, transmit-empty and receive-not-empty, but
\* not overrun, has left overrun and receive-not-empty set
C9_Witness ==
    /\ op.fn = "spi_write" /\ op.arg = SPI_SR
    /\ op.val = SPI_SR_UDR + SPI_SR_TXE + SPI_SR_RXNE
    /\ Bit(spi.sr, SPI_SR_OVR)
    /\ Bit(spi.sr, SPI_SR_RXNE)
    /\ Bit(spi.sr, SPI_SR_TXE)

\* C10 (disabled controller): a DR write while the enable bit of CR1 is
\* clear performs no transfer (the flash device is as it was, the bus
\* returned nothing) and changes no controller state: SR, both data
\* latches, the unread-data flag, the interrupt level and every other field
\* keep their values.
C10_DisabledController ==
    [][(IsDrWrite(op') /\ ~Bit(spi.cr1, SPI_CR1_SPE))
        => /\ flash' = flash
           /\ spi'.sr = spi.sr
           /\ spi'.dr_tx = spi.dr_tx /\ spi'.dr_rx = spi.dr_rx
           /\ spi'.rx_fifo_has_data = spi.rx_fifo_has_data
           /\ spi'.irq = spi.irq
           /\ spi' = spi
           /\ op'.ret = 0
      ]_vars

\* a DR write of a PAGE_PROGRAM opcode was ignored by the disabled
\* controller while the flash was selected with its latch set, a response
\* was unread and the interrupt line was high
C10_Witness ==
    /\ IsDrWrite(op)
    /\ op.val = CMD_PP
    /\ ~Bit(spi.cr1, SPI_CR1_SPE)
    /\ spi.cs[FlashSlot] = 0
    /\ flash.write_enable
    /\ flash.state = STATE_IDLE
    /\ spi.rx_fifo_has_data
    /\ spi.dr_tx = CMD_WREN
    /\ spi.irq

\* C11 (controller reset): a reset taken in any state leaves CR1 = 0,
\* CR2 = 0, SR with only transmit-empty set, both data latches 0, CSCTRL
\* and its shadow 0, the unread-data flag clear, and the line of every
\* attached slot of 0..3 at the high level.
C11_ControllerReset ==
    [][op'.fn = "spi_reset"
        => /\ spi'.cr1 = 0 /\ spi'.cr2 = 0
           /\ spi'.sr = SPI_SR_TXE
           /\ spi'.dr_tx = 0 /\ spi'.dr_rx = 0
           /\ spi'.csctrl = 0 /\ spi'.prev_csctrl = 0
           /\ ~spi'.rx_fifo_has_data
           /\ \A i \in 0..(NUM_CS - 1) :
                 i \in spi.cs_lines => spi'.cs[i] = 1
      ]_vars

\* a reset has just been taken by a controller whose interrupt line was
\* high, so whose registers were not in their reset state
C11_Witness ==
    /\ op.fn = "spi_reset"
    /\ spi.irq
    /\ \A i \in spi.cs_lines : spi.cs[i] = 1
    /\ spi.cr1 = 0 /\ spi.cr2 = 0 /\ spi.sr = SPI_SR_TXE
    /\ spi.dr_rx = 0 /\ spi.csctrl = 0 /\ spi.prev_csctrl = 0
    /\ ~spi.rx_fifo_has_data

\* C12 (flash reset): a device reset taken in any command state leaves
\* storage as it was, the state idle, and write_enable, the address, the
\* counters and the page position clear; and the select deassertion that
\* follows a reset taken after at least one data byte of a page program
\* leaves storage as it was when the program began.
C12_FlashReset ==
    [][/\ op'.fn = "flash_reset"
            => /\ flash'.storage = flash.storage
               /\ flash'.state = STATE_IDLE
               /\ ~flash'.write_enable
               /\ flash'.cmd = 0 /\ flash'.addr = 0 /\ flash'.addr_bytes = 0
               /\ flash'.data_pos = 0 /\ flash'.page_pos = 0
               /\ flash'.status_reg = 0
       /\ mon'.ph \in {"reset", "resetcs"}
            => /\ flash'.storage = flash.storage
               /\ flash'.storage = mon'.pre
      ]_vars

\* a select deassertion has followed a reset taken after two data bytes of
\* a page program inside the array; the bytes are still in the page buffer
\* and not in storage
C12_Witness ==
    /\ mon.ph = "resetcs"
    /\ IsDeassert(op.fn, op.arg)
    /\ Len(mon.d) = 2
    /\ BigEndian(mon.a) = 4095
    /\ PageByte(flash.page_buf, 0) = mon.d[1]
    /\ StorageByte(flash.storage, 4095) = 255
    /\ flash.storage = mon.pre

\* C13 (latch on deassertion), as claimed: a select deassertion clears
\* write_enable exactly when it copies the page buffer, that is when the
\* state was WRITING_DATA, page_pos > 0 and addr + page_pos <= size; any
\* other deassertion leaves write_enable as it was.
C13_LatchClearedOnCopy ==
    [][IsDeassert(op'.fn, op'.arg)
        => LET copies == /\ flash.state = STATE_WRITING_DATA
                         /\ flash.page_pos > 0
                         /\ flash.addr + flash.page_pos <= flash.size
           IN  flash'.write_enable = (flash.write_enable /\ ~copies)
      ]_vars

\* C13, amended: a select deassertion clears write_enable exactly when the
\* state was WRITING_DATA and page_pos > 0, whether or not the range fits
\* the array; it changes storage only if moreover addr + page_pos <= size;
\* a deassertion in any other state or with an empty buffer leaves
\* write_enable as it was.
C13_LatchClearedOnProgramEnd ==
    [][IsDeassert(op'.fn, op'.arg)
        => LET ends == /\ flash.state = STATE_WRITING_DATA
                       /\ flash.page_pos > 0
               fits == flash.addr + flash.page_pos <= flash.size
           IN  /\ flash'.write_enable = (flash.write_enable /\ ~ends)
               /\ flash'.storage # flash.storage => ends /\ fits
      ]_vars

\* a deassertion has ended a two-byte program at the last byte of the
\* array: nothing was copied and the latch is clear
C13_Witness ==
    /\ IsDeassert(op.fn, op.arg)
    /\ mon.ph = "done"
    /\ Len(mon.d) = 2
    /\ BigEndian(mon.a) = flash.size - 1
    /\ flash.storage = mon.pre
    /\ ~flash.write_enable

\* C14 (bounds overrun): a page program of n bytes at A with A + n > size
\* and a sector erase whose sector base is not below size leave storage as
\* it was; a READ_DATA transfer at an offset addr + data_pos >= size returns
\* 0xFF and leaves the device reading at an offset that is again >= size.
C14_BoundsOverrun ==
    [][/\ (mon'.ph = "done" /\ BigEndian(mon'.a) + Len(mon'.d) > flash.size)
            => flash'.storage = mon'.pre
       /\ (/\ mon'.ph = "erased"
           /\ SECTOR_LEN * (BigEndian(mon'.a) \div SECTOR_LEN) >= flash.size)
            => flash'.storage = mon'.pre
       /\ (/\ op'.fn = "transfer"
           /\ flash.state = STATE_READING_DATA
           /\ flash.addr + flash.data_pos >= flash.size)
            => /\ op'.ret = 255
               /\ flash'.state = STATE_READING_DATA
               /\ flash'.addr + flash'.data_pos >= flash'.size
      ]_vars

\* a read that began at the programmed last byte of the array has run two
\* bytes past the end and returned 0xFF
C14_Witness ==
    /\ op.fn = "transfer"
    /\ op.ret = 255
    /\ flash.state = STATE_READING_DATA
    /\ flash.addr = flash.size - 1
    /\ flash.data_pos = 3
    /\ StorageByte(flash.storage, flash.size - 1) # 255

\* C15 (page buffer bound): page_pos <= 256 and addr_bytes <= 3 in every
\* state; and when the host has sent more than 256 data bytes in a page
\* program at A with A + 256 <= size, the deassertion leaves the first 256
\* bytes sent at A .. A+255, in order, and every other byte of storage as
\* it was: the later bytes are dropped.
C15_PageBufferBound ==
    /\ flash.page_pos <= PAGE_BUF_LEN
    /\ flash.addr_bytes <= 3
    /\ LET A == BigEndian(mon.a)
       IN  (mon.ph = "done" /\ mon.x >= 1 /\ A + PAGE_BUF_LEN <= flash.size)
            => /\ Len(mon.d) = PAGE_BUF_LEN
               /\ \A off \in Touched(flash.storage, mon.pre)
                              \cup (A .. (A + PAGE_BUF_LEN - 1)) :
                     StorageByte(flash.storage, off) =
                         IF off \in A .. (A + PAGE_BUF_LEN - 1)
                         THEN mon.d[off - A + 1]
                         ELSE StorageByte(mon.pre, off)

\* a program of 258 bytes at the last 256 bytes of the array has been
\* committed: the first and the 256th byte sent are at the ends of the
\* page
C15_Witness ==
    /\ mon.ph = "done"
    /\ mon.x = 2
    /\ BigEndian(mon.a) = flash.size - PAGE_BUF_LEN
    /\ StorageByte(flash.storage, flash.size - PAGE_BUF_LEN) = PageData(0)
    /\ StorageByte(flash.storage, flash.size - 1) = PageData(PAGE_BUF_LEN - 1)
    /\ ~flash.write_enable

\* C16 (one-shot latch): storage changes only by the completion of a
\* sector erase or by a page-program commit; each erase and each commit is
\* preceded by a WREN opcode accepted after the previous erase or commit
\* and after the last reset or WRDI; and write_enable is clear right after
\* every erase and every commit.
C16_OneShotLatch ==
    [][LET ev == \/ IsErase(flash, op'.fn, op'.arg)
                 \/ IsCommit(flash, op'.fn, op'.arg)
       IN  /\ flash'.storage # flash.storage => ev
           /\ ev => armed /\ ~flash'.write_enable
      ]_vars

\* a second commit, after a second WREN, has changed storage that an
\* earlier erase or commit had changed before
C16_Witness ==
    /\ IsDeassert(op.fn, op.arg)
    /\ mon.ph = "done"
    /\ nwren = 2
    /\ mon.pre # <<>>
    /\ flash.storage # mon.pre
    /\ ~armed
    /\ ~flash.write_enable

\* C17 (one-shot status read): READ_STATUS received in STATE_IDLE returns 0
\* and enters STATE_READING_SR; the transfer after it returns status_reg
\* and leaves the state idle; and the transfer after that one is taken as
\* an opcode, with no select deassertion between: it is latched in cmd,
\* WREN sets write_enable, READ_DATA and JEDEC_ID start their sequences.
C17_OneShotStatusRead ==
    [][/\ (/\ op'.fn = "transfer"
           /\ flash.state = STATE_IDLE
           /\ op'.arg = CMD_RDSR)
            => op'.ret = 0 /\ flash'.state = STATE_READING_SR
       /\ mon'.sr = 2
            => /\ op'.ret = flash.status_reg
               /\ flash'.state = STATE_IDLE
               /\ flash'.status_reg = flash.status_reg
       /\ (mon.sr = 2 /\ op'.fn = "transfer")
            => /\ flash'.cmd = op'.arg
               /\ op'.ret = 0
               /\ op'.arg = CMD_WREN => flash'.write_enable
               /\ op'.arg = CMD_READ => flash'.state = STATE_READING_CMD
               /\ op'.arg = CMD_JEDEC_ID => flash'.state = STATE_READING_ID
               /\ op'.arg = CMD_RDSR => flash'.state = STATE_READING_SR
      ]_vars

\* the first WREN the host sent came right after a status read, with the
\* select line untouched, and set the latch
C17_Witness ==
    /\ mon.sr = 3
    /\ op.fn = "transfer"
    /\ op.arg = CMD_WREN
    /\ nwren = 1
    /\ flash.write_enable
    /\ flash.state = STATE_IDLE

\* C18 (deassertion ends any transaction): a select deassertion taken in
\* any command state leaves the state idle and data_pos, page_pos, addr
\* and addr_bytes 0; the transfer that follows it is taken as an opcode;
\* and a select assertion changes nothing in the device.
C18_DeassertEndsTransaction ==
    [][/\ IsDeassert(op'.fn, op'.arg)
            => /\ flash'.state = STATE_IDLE
               /\ flash'.data_pos = 0
               /\ flash'.page_pos = 0
               /\ flash'.addr = 0
               /\ flash'.addr_bytes = 0
       /\ (mon.was # NoWas /\ op'.fn = "transfer")
            => flash'.cmd = op'.arg /\ op'.ret = 0
       /\ IsAssert(op'.fn, op'.arg) => flash' = flash
      ]_vars

\* a deassertion on the select input has found the device with two
\* address bytes of a program or an erase collected and left it idle
C18_Witness ==
    /\ op.fn = "flash_cs"
    /\ op.arg = 1
    /\ mon.was = [state |-> STATE_READING_CMD, addr_bytes |-> 2]
    /\ flash.write_enable
    /\ flash.state = STATE_IDLE
    /\ flash.addr = 0
    /\ flash.addr_bytes = 0

\* C19 (interrupt line in every state), as claimed: in every reachable
\* state of the controller, the state right after a reset included, the
\* level last driven on the interrupt line is the aggregation of the
\* current CR2 and SR.
C19_IrqFollowsRegisters ==
    spi.irq = Aggregate(spi)

\* C20 (controller reset commits a pending program): with the flash on
\* slot 0, a controller reset taken while the select line is low and the
\* flash is in WRITING_DATA with page_pos > 0 and addr + page_pos <= size
\* leaves the line high, the buffered bytes in storage at addr, every other
\* byte as it was and write_enable clear; and a controller reset changes
\* storage in no other case.
C20_ResetCommits ==
    [][op'.fn = "spi_reset"
        => LET pending == /\ spi.cs[FlashSlot] = 0
                          /\ flash.state = STATE_WRITING_DATA
                          /\ flash.page_pos > 0
                          /\ flash.addr + flash.page_pos <= flash.size
               range == flash.addr .. (flash.addr + flash.page_pos - 1)
           IN  /\ pending
                    => /\ spi'.cs[FlashSlot] = 1
                       /\ ~flash'.write_enable
                       /\ flash'.state = STATE_IDLE
                       /\ \A off \in Touched(flash.storage, flash'.storage)
                                      \cup range :
                             StorageByte(flash'.storage, off) =
                                 IF off \in range
                                 THEN PageByte(flash.page_buf, off - flash.addr)
                                 ELSE StorageByte(flash.storage, off)
               /\ flash'.storage # flash.storage => pending
      ]_vars

\* a controller reset has committed the one byte the host had sent of a
\* page program at the last byte of the array
C20_Witness ==
    /\ op.fn = "spi_reset"
    /\ mon.ph = "done"
    /\ Len(mon.d) = 1
    /\ BigEndian(mon.a) = flash.size - 1
    /\ StorageByte(flash.storage, flash.size - 1) = mon.d[1]
    /\ flash.storage # mon.pre
    /\ ~flash.write_enable
    /\ spi.cs[FlashSlot] = 1

====
